---- MODULE Spec2Model ----
(***************************************************************************)
(* Model of regelum/environment/node.py: the hierarchical State, the       *)
(* path-based Inputs resolver, the Node constructor, the Graph (input      *)
(* resolution, execution-order relaxation, step) and Terminate's dynamics. *)
(*                                                                         *)
(* Spec          nodes are created, a Graph is built, steppers attached    *)
(*               and the Graph ticked                                      *)
(* SpecBuild     the construction alone, paths of two components included  *)
(* SpecRegraph   a second Graph built from the Node objects of the first   *)
(* SpecInputs    an Inputs object resolved and collected on its own        *)
(* SpecState     a State object constructed, written and searched          *)
(* SpecTerminate Terminate's dynamics over a sequence of clock times       *)
(*                                                                         *)
(* Strings are sequences of one-character strings, so that str.split("/")  *)
(* and "/".join(...) are computed, not assumed.  A Python object is a      *)
(* record; its identity is the field id, which dataclass equality ignores. *)
(***************************************************************************)
EXTENDS Integers, Sequences, FiniteSets, TLC

\* ------------------------------------------------------------------ bounds
MaxNodes == 3
MaxTicks == 2
MaxPaths == 2
MaxCatalog == 2
MaxDepth == 3
MaxTime == 3
MaxClockTicks == 4

\* ----------------------------------------------------------------- strings
Slash == "/"

Range(s) == {s[i] : i \in 1..Len(s)}

\* [state for state in path.split("/") if state]
RECURSIVE SplitFrom(_, _, _)
SplitFrom(path, i, cur) ==
    IF i > Len(path)
    THEN IF cur = <<>> THEN <<>> ELSE <<cur>>
    ELSE IF path[i] = Slash
         THEN IF cur = <<>>
              THEN SplitFrom(path, i + 1, <<>>)
              ELSE <<cur>> \o SplitFrom(path, i + 1, <<>>)
         ELSE SplitFrom(path, i + 1, Append(cur, path[i]))

PathParts(path) == SplitFrom(path, 1, <<>>)

\* "/".join(parts)
RECURSIVE JoinParts(_)
JoinParts(parts) ==
    IF parts = <<>> THEN <<>>
    ELSE IF Len(parts) = 1 THEN parts[1]
         ELSE parts[1] \o <<Slash>> \o JoinParts(Tail(parts))

\* ------------------------------------------------------------------- State
\* The _value slot: None, a concrete value, or a Python list.
NoneValue == [kind |-> "none"]
Concrete(v) == [kind |-> "concrete", v |-> v]
ListValue(items) == [kind |-> "list", items |-> items]

\* isinstance(s, State)
IsState(s) == "name" \in DOMAIN s

\* State.__post_init__: is_leaf is computed once, from the value slot given.
PostInitIsLeaf(value) ==
    ~ (/\ value.kind = "list"
       /\ Len(value.items) > 0
       /\ \A k \in 1..Len(value.items) : IsState(value.items[k]))

\* State(name, dims, _value): the object with identity id.
State(id, name, dims, value) ==
    [id |-> id, name |-> name, dims |-> dims, _value |-> value,
     is_leaf |-> PostInitIsLeaf(value)]

\* State.__post_init__, lines 40-44: the TypeError kept for a list that is
\* not made of State objects only, tested after is_leaf has been computed
PostInitRaises(value) ==
    /\ ~ PostInitIsLeaf(value)
    /\ ~ (\A k \in 1..Len(value.items) : IsState(value.items[k]))

\* State(name, dims, _value) as a call: what it raises, or the new object
StateNew(id, name, dims, value) ==
    IF PostInitRaises(value) THEN [outcome |-> "TypeError"]
    ELSE [outcome |-> "ok", state |-> State(id, name, dims, value)]

\* the value setter: the slot is replaced, is_leaf is left as it was
value_setter(self, new_value) == [self EXCEPT !._value = new_value]

\* The dataclass-generated __eq__ compares (name, dims, _value, is_leaf);
\* lists compare element by element, so the comparison is structural and
\* blind to object identity.
RECURSIVE Fields(_)
Fields(s) ==
    IF IsState(s)
    THEN [name |-> s.name, dims |-> s.dims, is_leaf |-> s.is_leaf,
          _value |-> Fields(s._value)]
    ELSE IF s.kind = "list"
         THEN [kind |-> "list",
               items |-> [k \in 1..Len(s.items) |-> Fields(s.items[k])]]
         ELSE s

StateEq(s, t) == Fields(s) = Fields(t)

\* `x in lst` for a list of State objects: identity first, then __eq__.
StateIn(x, lst) ==
    \E k \in 1..Len(lst) : lst[k].id = x.id \/ StateEq(x, lst[k])

\* State.search_by_path; a miss (None) is NoMatch.
NoMatch == [kind |-> "nomatch"]

RECURSIVE search_by_path(_, _)
RECURSIVE SearchSubstates(_, _, _)
SearchSubstates(substates, k, path) ==
    IF k > Len(substates) THEN NoMatch
    ELSE LET result == search_by_path(substates[k], path)
         IN  IF result # NoMatch THEN result
             ELSE SearchSubstates(substates, k + 1, path)

\* mutation: the substates are searched with the whole path, the component
\* already matched included
search_by_path_WholePath(self, path) ==
    LET path_parts == PathParts(path)
    IN  IF path_parts = <<>> THEN NoMatch
        ELSE IF path_parts[1] = self.name
             THEN IF Len(path_parts) = 1 THEN self
                  ELSE IF self.is_leaf THEN NoMatch
                       ELSE SearchSubstates(self._value.items, 1, path)
             ELSE NoMatch

\* mutation: a leaf answers to the last component of the path, whatever
\* stands before it
search_by_path_LastComponent(self, path) ==
    LET path_parts == PathParts(path)
    IN  IF path_parts = <<>> THEN NoMatch
        ELSE IF self.is_leaf
             THEN IF path_parts[Len(path_parts)] = self.name THEN self
                  ELSE NoMatch
             ELSE IF path_parts[1] = self.name
                  THEN IF Len(path_parts) = 1 THEN self
                       ELSE SearchSubstates(self._value.items, 1,
                                            JoinParts(Tail(path_parts)))
                  ELSE NoMatch

search_by_path(self, path) ==
    LET path_parts == PathParts(path)
    IN  IF path_parts = <<>> THEN NoMatch
        ELSE IF path_parts[1] = self.name
             THEN IF Len(path_parts) = 1 THEN self
                  ELSE IF self.is_leaf THEN NoMatch
                       ELSE SearchSubstates(self._value.items, 1,
                                            JoinParts(Tail(path_parts)))
             ELSE NoMatch

\* State.get_all_states: the leaves, depth first.
RECURSIVE get_all_states(_)
RECURSIVE CollectStates(_, _)
CollectStates(substates, k) ==
    IF k > Len(substates) THEN <<>>
    ELSE get_all_states(substates[k]) \o CollectStates(substates, k + 1)

get_all_states(self) ==
    IF self.is_leaf THEN <<self>>
    ELSE CollectStates(self._value.items, 1)

\* What the traversal of _collect_states and of _collect_paths raises: on an
\* object whose is_leaf is False, `for substate in self._value` needs an
\* iterable and each substate needs the State methods.  "none" when the
\* traversal returns.
RECURSIVE IterationError(_)
RECURSIVE SubstatesError(_, _)
SubstatesError(substates, k) ==
    IF k > Len(substates) THEN "none"
    ELSE IF ~ IsState(substates[k]) THEN "AttributeError"
         ELSE LET raised == IterationError(substates[k])
              IN  IF raised # "none" THEN raised
                  ELSE SubstatesError(substates, k + 1)

IterationError(self) ==
    IF self.is_leaf THEN "none"
    ELSE IF self._value.kind # "list" THEN "TypeError"
         ELSE SubstatesError(self._value.items, 1)

\* State.paths: the path of every leaf, depth first
RECURSIVE CollectPaths(_, _)
RECURSIVE CollectSubPaths(_, _, _)
CollectSubPaths(substates, k, prefix) ==
    IF k > Len(substates) THEN <<>>
    ELSE CollectPaths(substates[k], prefix)
             \o CollectSubPaths(substates, k + 1, prefix)

CollectPaths(self, prefix) ==
    LET current_path == IF prefix # <<>> THEN prefix \o <<Slash>> \o self.name
                        ELSE self.name
    IN  IF self.is_leaf THEN <<current_path>>
        ELSE CollectSubPaths(self._value.items, 1, current_path)

StatePaths(self) == CollectPaths(self, <<>>)

\* mutation: only the object's own slot is tested, not its leaves
is_defined_OwnSlot(self) == self._value # NoneValue

\* State.is_defined
is_defined(self) ==
    LET leaves == get_all_states(self)
    IN  \A k \in 1..Len(leaves) : leaves[k]._value # NoneValue

\* ------------------------------------------------------------------ Inputs
\* Inputs(paths_to_states): states = [], _resolved = False
Inputs(paths) == [paths_to_states |-> paths, states |-> <<>>, _resolved |-> FALSE]

\* the inner loop of Inputs.resolve: the first state of the catalog on which
\* search_by_path(path) hits, or NoMatch
RECURSIVE FirstFound(_, _, _)
FirstFound(states, k, path) ==
    IF k > Len(states) THEN NoMatch
    ELSE LET found_state == search_by_path(states[k], path)
         IN  IF found_state # NoMatch THEN found_state
             ELSE FirstFound(states, k + 1, path)

\* the outer loop: found_states, one entry per path that hit, in path order
RECURSIVE FoundStates(_, _, _)
FoundStates(paths, i, states) ==
    IF i > Len(paths) THEN <<>>
    ELSE LET found_state == FirstFound(states, 1, paths[i])
         IN  (IF found_state # NoMatch THEN <<found_state>> ELSE <<>>)
             \o FoundStates(paths, i + 1, states)

\* mutation: found_states is stored before the count is compared
InputsResolve_StoreFirst(self, states) ==
    LET found_states == FoundStates(self.paths_to_states, 1, states)
        stored == [self EXCEPT !.states = found_states]
    IN  IF Len(self.paths_to_states) = Len(found_states)
        THEN IF \A k \in 1..Len(found_states) : found_states[k].is_leaf
             THEN [outcome |-> "ok", missing |-> {},
                   self |-> [stored EXCEPT !._resolved = TRUE]]
             ELSE [outcome |-> "All inputs must be leaf states", missing |-> {},
                   self |-> stored]
        ELSE [outcome |-> "Could not resolve all input paths",
              missing |-> Range(self.paths_to_states)
                            \ {found_states[k].name : k \in 1..Len(found_states)},
              self |-> stored]

\* Inputs.resolve(states): the outcome and the object after the call.
\* The outcome is "ok" or the message of the exception raised; the
\* ValueError carries the reported missing set.
InputsResolve(self, states) ==
    LET found_states == FoundStates(self.paths_to_states, 1, states)
    IN  IF Len(self.paths_to_states) = Len(found_states)
        THEN IF \A k \in 1..Len(found_states) : found_states[k].is_leaf
             THEN [outcome |-> "ok", missing |-> {},
                   self |-> [self EXCEPT !.states = found_states,
                                         !._resolved = TRUE]]
             ELSE [outcome |-> "All inputs must be leaf states", missing |-> {},
                   self |-> self]
        ELSE [outcome |-> "Could not resolve all input paths",
              missing |-> Range(self.paths_to_states)
                            \ {found_states[k].name : k \in 1..Len(found_states)},
              self |-> self]

\* State.value (read) of a leaf, restricted to the "value" entry: the symbolic
\* placeholder of (name, dims) in symbolic mode, the stored slot otherwise.
LeafValue(state, symbolic) ==
    IF symbolic THEN [kind |-> "symbolic", name |-> state.name, dims |-> state.dims]
    ELSE state._value

\* mutation: the resolved flag is tested before the number of paths
InputsCollect_FlagFirst(self, symbolic) ==
    IF ~ self._resolved
    THEN [outcome |-> "Resolve inputs before collecting", dict |-> {}]
    ELSE [outcome |-> "ok",
          dict |-> {<<self.states[k].name, LeafValue(self.states[k], symbolic)>> :
                      k \in 1..Len(self.states)}]

\* Inputs.collect(): the outcome and the returned dict, as a set of
\* <<key, value>> pairs (a later entry of the same name replaces an earlier one).
InputsCollect(self, symbolic) ==
    IF Len(self.paths_to_states) > 0
    THEN IF ~ self._resolved
         THEN [outcome |-> "Resolve inputs before collecting", dict |-> {}]
         ELSE [outcome |-> "ok",
               dict |-> {<<self.states[k].name, LeafValue(self.states[k], symbolic)>> :
                           k \in {j \in 1..Len(self.states) :
                                    \A l \in (j + 1)..Len(self.states) :
                                        self.states[l].name # self.states[j].name}}]
    ELSE [outcome |-> "ok", dict |-> {}]

\* -------------------------------------------------------------------- Node
\* node.transistor: None until with_transistor attaches one.  Of the external
\* stepper only the number of step() calls it has received is kept.
Transistor == [kind |-> "transistor", n_steps |-> 0]

TransistorStep(transistor) == [transistor EXCEPT !.n_steps = @ + 1]

\* Node.__init__(inputs, state, is_root) for a list of paths and a State:
\* the ValueError for a missing state, the assertion on a root's state (or
\* what evaluating is_defined raises), then the attributes.
NodeInit(inputs, state, is_root) ==
    IF state = NoneValue
    THEN [outcome |-> "State must be fully specified."]
    ELSE IF is_root /\ IterationError(state) # "none"
    THEN [outcome |-> IterationError(state)]
    ELSE IF is_root /\ ~ is_defined(state)
    THEN [outcome |-> "Initial state must be defined for the root node"]
    ELSE [outcome |-> "ok",
          node |-> [inputs |-> Inputs(inputs), state |-> state,
                    is_root |-> is_root, transistor |-> NoneValue]]

\* Node.with_transistor
with_transistor(node) == [node EXCEPT !.transistor = Transistor]

\* ---------------------------------------------------------------- Terminate
\* mutation: the horizon itself still counts as before the horizon
TerminateDynamics_HorizonExcluded(clock, time_final_) ==
    IF time_final_ # NoneValue
    THEN (IF clock <= time_final_.v THEN FALSE ELSE TRUE)
    ELSE FALSE

\* Terminate.compute_state_dynamics(inputs), for clock = inputs["Clock"] and
\* time_final_ = self.node_to_terminate.transistor.time_final: the value
\* returned under the key self.state.name.  Times are whole numbers of steps.
TerminateDynamics(clock, time_final_) ==
    IF time_final_ # NoneValue
    THEN (IF clock < time_final_.v THEN FALSE ELSE TRUE)
    ELSE FALSE

\* ------------------------------------------------------------------- Graph
\* reduce(lambda x, y: x + y, [node.state.get_all_states() for node in nodes])
RECURSIVE Catalog(_, _)
Catalog(nodes_, i) ==
    IF i > Len(nodes_) THEN <<>>
    ELSE get_all_states(nodes_[i].state) \o Catalog(nodes_, i + 1)

\* for node in self.nodes: node.inputs.resolve(states) -- stops at the first
\* node whose resolution raises; the nodes before it stay resolved.
RECURSIVE ResolveInputs(_, _, _)
ResolveInputs(nodes_, i, states) ==
    IF i > Len(nodes_) THEN [outcome |-> "ok", nodes |-> nodes_]
    ELSE LET r == InputsResolve(nodes_[i].inputs, states)
         IN  IF r.outcome = "ok"
             THEN ResolveInputs([nodes_ EXCEPT ![i].inputs = r.self], i + 1, states)
             ELSE [outcome |-> r.outcome, nodes |-> nodes_]

\* node_state_inputs_map, a dict keyed by node.state.name: its keys in
\* insertion order (a repeated key keeps its first position) ...
\* mutation: a new key is put in front of the keys, so that the scan runs
\* against the declaration order
RECURSIVE MapKeys_NewestFirst(_, _)
MapKeys_NewestFirst(nodes_, i) ==
    IF i = 0 THEN <<>>
    ELSE LET before == MapKeys_NewestFirst(nodes_, i - 1)
         IN  IF nodes_[i].state.name \in Range(before) THEN before
             ELSE <<nodes_[i].state.name>> \o before

RECURSIVE MapKeys(_, _)
MapKeys(nodes_, i) ==
    IF i = 0 THEN <<>>
    ELSE LET before == MapKeys(nodes_, i - 1)
         IN  IF nodes_[i].state.name \in Range(before) THEN before
             ELSE Append(before, nodes_[i].state.name)

\* ... and the entry of a key, which is the one of the last node of that name
MapEntry(nodes_, name) ==
    LET i == CHOOSE j \in 1..Len(nodes_) :
                /\ nodes_[j].state.name = name
                /\ \A l \in (j + 1)..Len(nodes_) : nodes_[l].state.name # name
    IN  [state |-> nodes_[i].state, inputs |-> nodes_[i].inputs.states,
         is_root |-> nodes_[i].is_root]

\* assert len(set(node_state_inputs_map.keys())) == len(node_state_inputs_map)
NoDuplicateKeys(keys) == Cardinality(Range(keys)) = Len(keys)

\* [node for node in nodes if node.state.name == node_name][0], as an index
FirstNodeNamed(nodes_, name) ==
    CHOOSE j \in 1..Len(nodes_) :
        /\ nodes_[j].state.name = name
        /\ \A l \in 1..(j - 1) : nodes_[l].state.name # name

\* mutation: a key is placed as soon as it is scanned, whatever it reads
Ready_Unplaced(nodes_, placed, node_name) == node_name \notin Range(placed)

\* the test of lines 275-279 for one key, given the names placed so far
Ready(nodes_, placed, node_name) ==
    LET node_info == MapEntry(nodes_, node_name)
        ordered_nodes_states ==
            [k \in 1..Len(placed) |-> MapEntry(nodes_, placed[k]).state]
    IN  /\ node_name \notin Range(placed)
        /\ \/ \A k \in 1..Len(node_info.inputs) :
                   StateIn(node_info.inputs[k], ordered_nodes_states)
           \/ node_info.is_root

\* ---------------------------------------- the queue-based topological sort
\* The alternative of the design notes, over the same dict and the same
\* edges as Graph.resolve: a key starts with one unit of in-degree per input
\* (none for a root), the keys of in-degree 0 are queued in declaration
\* order, and a key taken from the head of the queue releases the inputs it
\* provides; the keys that reach 0 join the tail in declaration order.
KahnInDegree(nodes_, node_name) ==
    LET node_info == MapEntry(nodes_, node_name)
    IN  IF node_info.is_root THEN 0 ELSE Len(node_info.inputs)

\* the number of inputs of node_name that the state of provider satisfies
KahnEdges(nodes_, provider, node_name) ==
    LET node_info == MapEntry(nodes_, node_name)
    IN  IF node_info.is_root THEN 0
        ELSE Cardinality({k \in 1..Len(node_info.inputs) :
                 StateIn(node_info.inputs[k], <<MapEntry(nodes_, provider).state>>)})

RECURSIVE KahnFrom(_, _, _, _)
KahnFrom(nodes_, queue, in_degree, order) ==
    IF queue = <<>> THEN order
    ELSE LET node_name == Head(queue)
             keys == MapKeys(nodes_, Len(nodes_))
             decreased == [name \in Range(keys) |->
                              in_degree[name] - KahnEdges(nodes_, node_name, name)]
             released == SelectSeq(keys, LAMBDA name :
                              in_degree[name] > 0 /\ decreased[name] = 0)
         IN  KahnFrom(nodes_, Tail(queue) \o released, decreased,
                      Append(order, node_name))

\* the order of the queue-based sort; shorter than the key list when some key
\* never reaches in-degree 0
KahnOrder(nodes_) ==
    LET keys == MapKeys(nodes_, Len(nodes_))
        in_degree == [name \in Range(keys) |-> KahnInDegree(nodes_, name)]
    IN  KahnFrom(nodes_, SelectSeq(keys, LAMBDA name : in_degree[name] = 0),
                 in_degree, <<>>)

KahnSucceeds(nodes_) ==
    Len(KahnOrder(nodes_)) = Len(MapKeys(nodes_, Len(nodes_)))

\* ------------------------------------------------------------ the program
VARIABLES
    nodes,               \* the Node objects created so far; Graph.nodes
    pc,                  \* "building", "resolving" (inside Graph.resolve's
                         \* while loop), "built", "failed" (Graph() raised)
    error,               \* what Graph() raised, "none" otherwise
    unresolved,          \* the key set named by "Graph cannot be resolved"
    ordered_node_names,  \* Graph.resolve's local list
    appended_in_round,   \* for each name of that list, the value
                         \* n_times_elapsed had when line 280 appended it
    n_times_elapsed,     \* Graph.resolve's round counter
    scan,                \* position of the for loop of line 271 in the keys
    ordered_nodes,       \* Graph.ordered_nodes, as indices into nodes
    ticks,               \* number of Graph.step() calls made
    stepped,             \* the nodes whose stepper the last step() invoked
    step_error,          \* what the last step() raised, "none" otherwise
    resolver,            \* an Inputs object used on its own, outside a Graph
    call,                \* the last call made on resolver and its outcome
    obj,                 \* a State object used on its own, NoObject before
                         \* the first one is constructed
    state_call,          \* the last call made with obj and its outcome
    time_final,          \* node_to_terminate.transistor.time_final
    clock_log,           \* the values inputs["Clock"] had at the ticks so far
    emitted              \* what Terminate's dynamics returned at those ticks

graph_vars == <<nodes, pc, error, unresolved, ordered_node_names,
                appended_in_round, n_times_elapsed, scan, ordered_nodes, ticks,
                stepped, step_error>>

inputs_vars == <<resolver, call>>

state_vars == <<obj, state_call>>

terminate_vars == <<time_final, clock_log, emitted>>

vars == <<graph_vars, inputs_vars, state_vars, terminate_vars>>

\* the names, dims and state trees the callers draw from
NameA == <<"a">>
NameB == <<"b">>
NameC == <<"c">>
NoDims == <<>>

\* the state trees of node number i: a leaf "a", a leaf "b", and a
\* hierarchical "c" holding one leaf "b"; every leaf holds value
StateChoices(i, value) ==
    { State(<<i, 0>>, NameA, NoDims, value),
      State(<<i, 0>>, NameB, NoDims, value),
      State(<<i, 0>>, NameC, NoDims,
            ListValue(<<State(<<i, 1>>, NameB, NoDims, value)>>)) }

\* the paths a node declares: none, "a" or "b" ...
InputChoices == {<<>>, <<NameA>>, <<NameB>>}

\* ... or "c/b", for the leaf "b" nested in the hierarchical "c"
LongPathChoices == { << <<"c", "/", "b">> >> }

GraphVarsInit ==
    /\ nodes = <<>>
    /\ pc = "building"
    /\ error = "none"
    /\ unresolved = {}
    /\ ordered_node_names = <<>>
    /\ appended_in_round = <<>>
    /\ n_times_elapsed = 0
    /\ scan = 0
    /\ ordered_nodes = <<>>
    /\ ticks = 0
    /\ stepped = <<>>
    /\ step_error = "none"

InputsVarsInit ==
    /\ resolver = Inputs(<<>>)
    /\ call = [op |-> "none"]

StateVarsInit ==
    /\ obj = NoneValue
    /\ state_call = [op |-> "none"]

TerminateVarsInit ==
    /\ time_final = NoneValue
    /\ clock_log = <<>>
    /\ emitted = <<>>

Init == GraphVarsInit /\ InputsVarsInit /\ StateVarsInit /\ TerminateVarsInit

\* A caller constructs one more node, declaring one of the path lists of
\* choices: a root with a defined state, or a non-root whose leaves are still
\* undefined.
AddNodeFrom(choices) ==
    /\ pc = "building"
    /\ Len(nodes) < MaxNodes
    /\ \E is_root \in BOOLEAN, inputs \in choices :
         \E state \in StateChoices(Len(nodes) + 1,
                                   IF is_root THEN Concrete(1) ELSE NoneValue) :
            LET r == NodeInit(inputs, state, is_root)
            IN  /\ r.outcome = "ok"
                /\ nodes' = Append(nodes, r.node)
    /\ UNCHANGED <<pc, error, unresolved, ordered_node_names, appended_in_round,
                   n_times_elapsed, scan, ordered_nodes, ticks, stepped,
                   step_error, inputs_vars, state_vars, terminate_vars>>

AddNode == AddNodeFrom(InputChoices)

\* Graph.__init__(nodes_) up to the first test of the while loop of
\* Graph.resolve.
GraphInitOn(nodes_) ==
    /\ IF nodes_ = <<>>
       THEN \* reduce() of an empty list without an initial value
            /\ pc' = "failed"
            /\ error' = "reduce() of empty iterable"
            /\ nodes' = nodes_
       ELSE LET r == ResolveInputs(nodes_, 1, Catalog(nodes_, 1))
            IN  /\ nodes' = r.nodes
                /\ IF r.outcome # "ok"
                   THEN pc' = "failed" /\ error' = r.outcome
                   ELSE IF ~ NoDuplicateKeys(MapKeys(r.nodes, Len(r.nodes)))
                        THEN pc' = "failed" /\ error' = "Duplicate node states detected"
                        ELSE pc' = "resolving" /\ error' = "none"
    /\ scan' = IF pc' = "resolving" THEN 1 ELSE 0

\* A caller constructs the Graph of the nodes created so far.
GraphInit ==
    /\ pc = "building"
    /\ GraphInitOn(nodes)
    /\ UNCHANGED <<unresolved, ordered_node_names, appended_in_round,
                   n_times_elapsed, ordered_nodes, ticks, stepped, step_error,
                   inputs_vars, state_vars, terminate_vars>>

\* One iteration of the for loop of line 271.
ScanNode ==
    /\ pc = "resolving"
    /\ LET keys == MapKeys(nodes, Len(nodes))
       IN  /\ scan <= Len(keys)
           /\ ordered_node_names' =
                  IF Ready(nodes, ordered_node_names, keys[scan])
                  THEN Append(ordered_node_names, keys[scan])
                  ELSE ordered_node_names
           /\ appended_in_round' =
                  IF Ready(nodes, ordered_node_names, keys[scan])
                  THEN Append(appended_in_round, n_times_elapsed)
                  ELSE appended_in_round
           /\ scan' = scan + 1
    /\ UNCHANGED <<nodes, pc, error, unresolved, n_times_elapsed, ordered_nodes,
                   ticks, stepped, step_error, inputs_vars, state_vars,
                   terminate_vars>>

\* The end of a round: the counter, the while test, the assertion of line 266
\* and, when the loop is left, lines 283-289.
EndRound ==
    /\ pc = "resolving"
    /\ LET keys == MapKeys(nodes, Len(nodes))
           n_times_max == Len(keys)
       IN  /\ scan > Len(keys)
           /\ n_times_elapsed' = n_times_elapsed + 1
           /\ IF ~ (Len(ordered_node_names) < Len(keys))
              THEN /\ pc' = "built"
                   /\ ordered_nodes' =
                          [k \in 1..Len(ordered_node_names) |->
                              FirstNodeNamed(nodes, ordered_node_names[k])]
                   /\ scan' = 0
                   /\ UNCHANGED <<error, unresolved>>
              ELSE IF n_times_elapsed' < n_times_max
                   THEN /\ scan' = 1
                        /\ UNCHANGED <<pc, error, unresolved, ordered_nodes>>
                   ELSE /\ pc' = "failed"
                        /\ error' = "Graph cannot be resolved"
                        /\ unresolved' = Range(keys) \ Range(ordered_node_names)
                        /\ scan' = 0
                        /\ UNCHANGED ordered_nodes
    /\ UNCHANGED <<nodes, ordered_node_names, appended_in_round, ticks, stepped,
                   step_error, inputs_vars, state_vars, terminate_vars>>

\* A caller attaches a stepper to a node that has none; callers attach the
\* steppers before the first tick.
WithTransistor ==
    /\ pc = "built"
    /\ ticks = 0
    /\ \E i \in 1..Len(nodes) :
          /\ nodes[i].transistor = NoneValue
          /\ nodes' = [nodes EXCEPT ![i] = with_transistor(nodes[i])]
    /\ UNCHANGED <<pc, error, unresolved, ordered_node_names, appended_in_round,
                   n_times_elapsed, scan, ordered_nodes, ticks, stepped,
                   step_error, inputs_vars, state_vars, terminate_vars>>

\* Graph.step's loop over order from position k on: the nodes after the
\* stepper calls made, the nodes stepped and what was raised.
RECURSIVE StepFrom(_, _, _, _)
StepFrom(nodes_, order, k, done) ==
    IF k > Len(order)
    THEN [nodes |-> nodes_, stepped |-> done, raised |-> "none"]
    ELSE LET i == order[k]
         IN  IF nodes_[i].transistor # NoneValue
             THEN StepFrom([nodes_ EXCEPT ![i].transistor = TransistorStep(@)],
                           order, k + 1, Append(done, i))
             ELSE [nodes |-> nodes_, stepped |-> done,
                   raised |-> "Node does not have a transistor"]

\* mutation: the loop runs over self.nodes instead of self.ordered_nodes
GraphStepResult_DeclarationOrder(nodes_, order) ==
    StepFrom(nodes_, [k \in 1..Len(nodes_) |-> k], 1, <<>>)

\* mutation: a node without a stepper is skipped instead of raising
RECURSIVE StepSkipping(_, _, _, _)
StepSkipping(nodes_, order, k, done) ==
    IF k > Len(order)
    THEN [nodes |-> nodes_, stepped |-> done, raised |-> "none"]
    ELSE LET i == order[k]
         IN  IF nodes_[i].transistor # NoneValue
             THEN StepSkipping([nodes_ EXCEPT ![i].transistor = TransistorStep(@)],
                               order, k + 1, Append(done, i))
             ELSE StepSkipping(nodes_, order, k + 1, done)

GraphStepResult_SkipMissing(nodes_, order) == StepSkipping(nodes_, order, 1, <<>>)

\* mutation: when the loop raises, the steps already made are undone
GraphStepResult_RolledBack(nodes_, order) ==
    LET r == StepFrom(nodes_, order, 1, <<>>)
    IN  IF r.raised = "none" THEN r
        ELSE [nodes |-> nodes_, stepped |-> r.stepped, raised |-> r.raised]

GraphStepResult(nodes_, order) == StepFrom(nodes_, order, 1, <<>>)

\* Graph.step()
GraphStep ==
    /\ pc = "built"
    /\ ticks < MaxTicks
    /\ LET r == GraphStepResult(nodes, ordered_nodes)
       IN  /\ nodes' = r.nodes
           /\ stepped' = r.stepped
           /\ step_error' = r.raised
    /\ ticks' = ticks + 1
    /\ UNCHANGED <<pc, error, unresolved, ordered_node_names, appended_in_round,
                   n_times_elapsed, scan, ordered_nodes, inputs_vars, state_vars,
                   terminate_vars>>

Next ==
    \/ AddNode
    \/ GraphInit
    \/ ScanNode
    \/ EndRound
    \/ WithTransistor
    \/ GraphStep

Spec == Init /\ [][Next]_vars

\* ---------------------------------------------- the construction on its own
\* the callers create nodes, with paths of one or of two components, and
\* construct the Graph; no stepper, no tick
AddNodeAnyPath == AddNodeFrom(InputChoices \cup LongPathChoices)

BuildNext ==
    \/ AddNodeAnyPath
    \/ GraphInit
    \/ ScanNode
    \/ EndRound

SpecBuild == Init /\ [][BuildNext]_vars

\* ------------------------------------------- a second Graph of the same nodes
\* A caller constructs another Graph from the Node objects of the first one,
\* listed in the opposite order.  The fields of the new Graph take the place
\* of those of the first; the Node objects and their Inputs are the same.
GraphAgain ==
    /\ pc \in {"built", "failed"}
    /\ GraphInitOn([k \in 1..Len(nodes) |-> nodes[Len(nodes) + 1 - k]])
    /\ unresolved' = {}
    /\ ordered_node_names' = <<>>
    /\ appended_in_round' = <<>>
    /\ n_times_elapsed' = 0
    /\ ordered_nodes' = <<>>
    /\ UNCHANGED <<ticks, stepped, step_error, inputs_vars, state_vars,
                   terminate_vars>>

RegraphNext ==
    \/ AddNode
    \/ GraphInit
    \/ ScanNode
    \/ EndRound
    \/ GraphAgain

SpecRegraph == Init /\ [][RegraphNext]_vars

\* ------------------------------------------- an Inputs object on its own
SeqsUpTo(S, n) == UNION {[1..k -> S] : k \in 0..n}

\* the paths a caller declares: "a", "b", "c", "c/b" and "/a"
PathChoices ==
    { NameA, NameB, NameC, <<"c", "/", "b">>, <<"/", "a">> }

\* the states a caller passes to resolve: a leaf "a", a leaf "b" and a
\* hierarchical "c" holding leaves "a" and "b"
CatalogChoices ==
    { State(<<0, 1>>, NameA, NoDims, NoneValue),
      State(<<0, 2>>, NameB, NoDims, Concrete(1)),
      State(<<0, 3>>, NameC, NoDims,
            ListValue(<< State(<<0, 4>>, NameA, NoDims, Concrete(1)),
                         State(<<0, 5>>, NameB, NoDims, NoneValue) >>)) }

InputsInit ==
    /\ GraphVarsInit
    /\ resolver \in {Inputs(paths) : paths \in SeqsUpTo(PathChoices, MaxPaths)}
    /\ call = [op |-> "none"]
    /\ StateVarsInit
    /\ TerminateVarsInit

\* resolver.resolve(states)
ResolveCall ==
    /\ \E states \in SeqsUpTo(CatalogChoices, MaxCatalog) :
          LET r == InputsResolve(resolver, states)
          IN  /\ resolver' = r.self
              /\ call' = [op |-> "resolve", states |-> states,
                          outcome |-> r.outcome, missing |-> r.missing]
    /\ UNCHANGED <<graph_vars, state_vars, terminate_vars>>

\* resolver.collect(), in concrete or in symbolic mode
CollectCall ==
    /\ \E symbolic \in BOOLEAN :
          LET r == InputsCollect(resolver, symbolic)
          IN  call' = [op |-> "collect", symbolic |-> symbolic,
                       outcome |-> r.outcome, dict |-> r.dict]
    /\ UNCHANGED <<resolver, graph_vars, state_vars, terminate_vars>>

InputsNext == ResolveCall \/ CollectCall

SpecInputs == InputsInit /\ [][InputsNext]_vars

\* -------------------------------------------- a State object on its own
\* the names a caller gives: "a", "b", "a/b" and the empty string
StateNames == { NameA, NameB, <<"a", "/", "b">>, <<>> }

\* the value slots a caller gives to a first State: None, a number, an
\* empty list and a list holding a number
SlotChoices ==
    { NoneValue, Concrete(1), ListValue(<<>>), ListValue(<<Concrete(1)>>) }

\* the lists a caller wraps obj in: obj alone, obj followed by a new
\* undefined leaf "a", and obj followed by a number
ListChoices(level) ==
    { <<obj>>,
      <<obj, State(<<level, 1>>, NameA, NoDims, NoneValue)>>,
      <<obj, Concrete(1)>> }

\* the values a caller writes through the setter: None, a number and a
\* list holding a new undefined leaf "b"
WriteChoices ==
    { NoneValue, Concrete(1),
      ListValue(<<State(<<0, 0>>, NameB, NoDims, NoneValue)>>) }

\* State(name, dims, value): a first object, or one whose list holds obj
ConstructState ==
    /\ LET level == IF obj = NoneValue THEN 1 ELSE obj.id[1] + 1
       IN  /\ level <= MaxDepth
           /\ \E name \in StateNames :
               \E value \in (IF obj = NoneValue THEN SlotChoices
                             ELSE {ListValue(l) : l \in ListChoices(level)}) :
                  LET r == StateNew(<<level, 0>>, name, NoDims, value)
                  IN  /\ obj' = IF r.outcome = "ok" THEN r.state ELSE obj
                      /\ state_call' = [op |-> "State", value |-> value,
                                        outcome |-> r.outcome]
    /\ UNCHANGED <<graph_vars, inputs_vars, terminate_vars>>

\* obj.value = new_value
SetValue ==
    /\ obj # NoneValue
    /\ \E new_value \in WriteChoices :
          /\ obj' = value_setter(obj, new_value)
          /\ state_call' = [op |-> "value.setter", value |-> new_value,
                            outcome |-> "ok"]
    /\ UNCHANGED <<graph_vars, inputs_vars, terminate_vars>>

\* for the k-th path of obj.paths: obj.search_by_path(path).  The k-th path
\* is the one of the k-th leaf of the traversal, which get_all_states makes
\* in the same order.
SearchPathCall ==
    /\ obj # NoneValue
    /\ IF IterationError(obj) # "none"
       THEN state_call' = [op |-> "paths", outcome |-> IterationError(obj)]
       ELSE \E k \in 1..Len(StatePaths(obj)) :
               LET found == search_by_path(obj, StatePaths(obj)[k])
               IN  state_call' =
                       [op |-> "search_by_path", outcome |-> "ok",
                        path |-> StatePaths(obj)[k],
                        leaf |-> get_all_states(obj)[k].id,
                        found |-> IF found = NoMatch THEN NoMatch
                                  ELSE [id |-> found.id]]
    /\ UNCHANGED <<obj, graph_vars, inputs_vars, terminate_vars>>

\* Node(state=obj, is_root=is_root)
NodeCall ==
    /\ \E is_root \in BOOLEAN :
          state_call' = [op |-> "Node", is_root |-> is_root,
                         outcome |-> NodeInit(<<>>, obj, is_root).outcome]
    /\ UNCHANGED <<obj, graph_vars, inputs_vars, terminate_vars>>

StateNext == ConstructState \/ SetValue \/ SearchPathCall \/ NodeCall

SpecState == Init /\ [][StateNext]_vars

\* ------------------------------------------- a Terminate node being ticked
\* the horizon of the wrapped node's stepper: none, or a time
TerminateInit ==
    /\ GraphVarsInit
    /\ InputsVarsInit
    /\ StateVarsInit
    /\ time_final \in {NoneValue} \cup {Concrete(t) : t \in 0..MaxTime}
    /\ clock_log = <<>>
    /\ emitted = <<>>

\* One tick: the stepper calls compute_state_dynamics with the clock's time.
TerminateTick ==
    /\ Len(clock_log) < MaxClockTicks
    /\ \E clock \in 0..MaxTime :
          /\ clock_log' = Append(clock_log, clock)
          /\ emitted' = Append(emitted, TerminateDynamics(clock, time_final))
    /\ UNCHANGED <<time_final, graph_vars, inputs_vars, state_vars>>

TerminateNext == TerminateTick

SpecTerminate == TerminateInit /\ [][TerminateNext]_vars

\* ------------------------------------------------- vocabulary of the claims
\* node owns leaf: the leaf object is one of the leaves of the node's tree
Owns(node, leaf) ==
    \E s \in Range(get_all_states(node.state)) : s.id = leaf.id

\* node i reads node m: m owns one of i's resolved input leaves
Reads(i, m) ==
    \E j \in 1..Len(nodes[i].inputs.states) :
        Owns(nodes[m], nodes[i].inputs.states[j])

\* a chain i reads ... reads m of at most n links through the nodes of among
RECURSIVE ReadsWithin(_, _, _, _)
ReadsWithin(i, m, n, among) ==
    /\ n > 0
    /\ \/ Reads(i, m)
       \/ \E x \in among : Reads(i, x) /\ ReadsWithin(x, m, n - 1, among)

NodeIds == 1..Len(nodes)

NonRoots == {i \in NodeIds : ~ nodes[i].is_root}

Acyclic == \A i \in NodeIds : ~ ReadsWithin(i, i, Len(nodes), NodeIds)

\* Graph.__init__ got past the resolution of the inputs of every node
InputsResolved == pc \in {"resolving", "built"} \/ error = "Graph cannot be resolved"

UniqueNames ==
    \A i, j \in NodeIds : i # j => nodes[i].state.name # nodes[j].state.name

PositionOf(i) ==
    IF \E k \in 1..Len(ordered_nodes) : ordered_nodes[k] = i
    THEN CHOOSE k \in 1..Len(ordered_nodes) : ordered_nodes[k] = i
    ELSE 0

\* C1: in the order Graph.resolve returns, every non-root node comes strictly
\* after every node that owns one of its resolved input leaves.
C1_OwnersFirst ==
    pc = "built" =>
        \A k \in 1..Len(ordered_nodes) :
            ~ nodes[ordered_nodes[k]].is_root =>
                \A m \in NodeIds :
                    Reads(ordered_nodes[k], m) =>
                        (PositionOf(m) > 0 /\ PositionOf(m) < k)

\* C2: when the reads relation (nested leaves included) is acyclic and there
\* is a root, Graph.resolve does not raise "Graph cannot be resolved" and
\* needs at most N rounds, N the number of nodes.
C2_AcyclicResolves ==
    (InputsResolved /\ Acyclic /\ NodeIds \ NonRoots # {}) =>
        /\ error # "Graph cannot be resolved"
        /\ n_times_elapsed <= Len(nodes)

\* C3: Graph construction never succeeds on a node list in which two nodes
\* have the same top-level state name.
C3_DuplicatesFail ==
    pc = "built" => UniqueNames

\* C4: when Graph construction succeeds, ordered_nodes is a permutation of
\* the supplied node list.
C4_Permutation ==
    pc = "built" =>
        /\ Len(ordered_nodes) = Len(nodes)
        /\ Range(ordered_nodes) = NodeIds

\* C5: when non-root nodes read each other in a cycle, construction fails
\* with "Graph cannot be resolved" after N rounds, and the names reported are
\* exactly those of the nodes never placed.
C5_CycleFails ==
    /\ (InputsResolved
        /\ \E i \in NonRoots : ReadsWithin(i, i, Len(nodes), NonRoots))
          => pc # "built"
    /\ error = "Graph cannot be resolved" =>
          /\ n_times_elapsed = Len(nodes)
          /\ unresolved = {nodes[i].state.name : i \in NodeIds}
                             \ Range(ordered_node_names)

\* position of a name among the keys of node_state_inputs_map
KeyPosition(name) ==
    LET keys == MapKeys(nodes, Len(nodes))
    IN  CHOOSE k \in 1..Len(keys) : keys[k] = name

\* node i has been scanned in the first round of Graph.resolve
ScannedInFirstRound(i) ==
    /\ InputsResolved
    /\ \/ n_times_elapsed >= 1
       \/ scan > KeyPosition(nodes[i].state.name)

\* C6: every root node is in the execution order as soon as the first round
\* has scanned it, whatever its inputs.
C6_RootsFirstRound ==
    \A i \in NodeIds :
        (nodes[i].is_root /\ ScannedInFirstRound(i)) =>
            /\ nodes[i].state.name \in Range(ordered_node_names)
            /\ pc = "built" => i \in Range(ordered_nodes)

\* C7: a step() of a graph all of whose nodes have a stepper invokes the
\* stepper of each node of ordered_nodes exactly once, in the order of
\* ordered_nodes, and no step changes ordered_nodes.
C7_StepOrder ==
    [][ /\ pc = "built" => ordered_nodes' = ordered_nodes
        /\ (ticks' = ticks + 1
            /\ \A i \in NodeIds : nodes[i].transistor # NoneValue) =>
              /\ step_error' = "none"
              /\ stepped' = ordered_nodes
              /\ \A k, l \in 1..Len(stepped') : stepped'[k] = stepped'[l] => k = l
              /\ \A i \in NodeIds :
                    nodes'[i].transistor.n_steps =
                        nodes[i].transistor.n_steps
                          + (IF i \in Range(ordered_nodes) THEN 1 ELSE 0) ]_vars

\* two ticks of a graph whose execution order differs from the declaration
\* order, every node having a stepper
C7_Witness ==
    /\ pc = "built"
    /\ ticks = 2
    /\ step_error = "none"
    /\ Len(ordered_nodes) = 3
    /\ ordered_nodes[1] # 1
    /\ \A i \in NodeIds : nodes[i].transistor # NoneValue /\ nodes[i].transistor.n_steps = 2

\* C8: construction never raises the missing-stepper error, and once the
\* graph is built every step() raises it if some node of the order has no
\* stepper, without stepping past such a node.
C8_MissingStepper ==
    /\ error # "Node does not have a transistor"
    /\ ticks > 0 =>
          LET missing == {k \in 1..Len(ordered_nodes) :
                            nodes[ordered_nodes[k]].transistor = NoneValue}
          IN  IF missing = {}
              THEN step_error = "none"
              ELSE /\ step_error = "Node does not have a transistor"
                   /\ \A k \in missing : Len(stepped) < k

\* a built graph, ticked twice, one node with and one without a stepper
C8_Witness ==
    /\ pc = "built"
    /\ ticks = 2
    /\ step_error = "Node does not have a transistor"
    /\ \E i, j \in Range(ordered_nodes) :
          /\ nodes[i].transistor = NoneValue
          /\ nodes[j].transistor # NoneValue
          /\ nodes[j].transistor.n_steps = 2

\* C9: collect() raises on an unresolved resolver that declares a path, and
\* returns the empty mapping on a resolver that declares none, resolved or not.
C9_Collect ==
    call.op = "collect" =>
        /\ (Len(resolver.paths_to_states) > 0 /\ ~ resolver._resolved) =>
              call.outcome = "Resolve inputs before collecting"
        /\ Len(resolver.paths_to_states) = 0 =>
              (call.outcome = "ok" /\ call.dict = {})

\* collect() has raised on a resolver of two paths that was never resolved
C9_Witness ==
    /\ call.op = "collect"
    /\ Len(resolver.paths_to_states) = 2
    /\ ~ resolver._resolved
    /\ call.outcome = "Resolve inputs before collecting"

\* C10: a resolve() call either succeeds, leaving the resolver resolved with
\* one leaf per declared path, the leaf at position k matched by path k, or
\* raises and leaves the flag and the stored list as they were.
C10_AllOrNothing ==
    [][ (call' # call /\ call'.op = "resolve") =>
          IF call'.outcome = "ok"
          THEN /\ resolver'._resolved
               /\ resolver'.paths_to_states = resolver.paths_to_states
               /\ Len(resolver'.states) = Len(resolver.paths_to_states)
               /\ \A k \in 1..Len(resolver'.states) :
                     /\ resolver'.states[k].is_leaf
                     /\ \E c \in 1..Len(call'.states) :
                           search_by_path(call'.states[c],
                                          resolver.paths_to_states[k])
                             = resolver'.states[k]
          ELSE resolver' = resolver ]_vars

\* a resolve() that matched one of two paths and raised, on a resolver that
\* an earlier call had resolved
C10_Witness ==
    /\ call.op = "resolve"
    /\ call.outcome = "Could not resolve all input paths"
    /\ Len(resolver.paths_to_states) = 2
    /\ FirstFound(call.states, 1, resolver.paths_to_states[1]) # NoMatch
    /\ FirstFound(call.states, 1, resolver.paths_to_states[2]) = NoMatch
    /\ resolver._resolved
    /\ Len(resolver.states) = 2

\* ----------------------------------------------------------------- C11
\* a list that holds a State and something that is no State
MixedList(value) ==
    /\ value.kind = "list"
    /\ \E k \in 1..Len(value.items) : IsState(value.items[k])
    /\ \E k \in 1..Len(value.items) : ~ IsState(value.items[k])

\* a non-empty list of State objects only
StateList(value) ==
    /\ value.kind = "list"
    /\ Len(value.items) > 0
    /\ \A k \in 1..Len(value.items) : IsState(value.items[k])

\* C11: constructing a State whose value is a list mixing State objects with
\* other values raises; constructing it with a non-empty list of State
\* objects only succeeds and gives is_leaf = False.
C11_MixedListRaises ==
    state_call.op = "State" =>
        /\ MixedList(state_call.value) => state_call.outcome # "ok"
        /\ StateList(state_call.value) =>
               state_call.outcome = "ok" /\ ~ obj.is_leaf

\* ----------------------------------------------------------------- C12
\* every name of the tree is non-empty and free of "/", and no two states
\* of one list have the same name
RECURSIVE RegularNames(_)
RegularNames(s) ==
    /\ s.name # <<>>
    /\ Slash \notin Range(s.name)
    /\ \/ s.is_leaf
       \/ LET items == s._value.items
          IN  /\ \A k \in 1..Len(items) : RegularNames(items[k])
              /\ \A k, l \in 1..Len(items) :
                     k # l => items[k].name # items[l].name

\* C12 as stated: for every state tree and every path p that paths returns,
\* search_by_path(p) on the root returns the very leaf that produced p.
C12_RoundTrip ==
    state_call.op = "search_by_path" =>
        state_call.found = [id |-> state_call.leaf]

\* C12 amended: the same, for the trees whose names are non-empty, contain
\* no "/" and differ between the states of one list.
C12_RoundTripRegularNames ==
    (state_call.op = "search_by_path" /\ RegularNames(obj)) =>
        state_call.found = [id |-> state_call.leaf]

\* a path of three components, found in a tree of several leaves
C12_Witness ==
    /\ state_call.op = "search_by_path"
    /\ RegularNames(obj)
    /\ Len(PathParts(state_call.path)) = 3
    /\ Len(StatePaths(obj)) >= 2
    /\ state_call.found = [id |-> state_call.leaf]

\* ----------------------------------------------------------------- C13
\* the leaves reachable from s: the objects with is_leaf set that the lists
\* of the objects above them lead to
RECURSIVE ReachableLeaves(_)
ReachableLeaves(s) ==
    IF s.is_leaf THEN {s}
    ELSE IF s._value.kind # "list" THEN {}
         ELSE UNION { IF IsState(s._value.items[k])
                      THEN ReachableLeaves(s._value.items[k]) ELSE {} :
                      k \in 1..Len(s._value.items) }

\* state.is_defined evaluates to True: the traversal of the tree returns and
\* every leaf it reaches holds a value other than None
EveryLeafHoldsValue(s) ==
    /\ IterationError(s) = "none"
    /\ \A leaf \in ReachableLeaves(s) : leaf._value # NoneValue

\* C13: Node(state, is_root=True) succeeds exactly when state.is_defined,
\* that is when every leaf reachable from the state holds a value other than
\* None, and raises otherwise; Node(state, is_root=False) succeeds whatever
\* the leaves hold.
C13_RootNeedsDefinedState ==
    (state_call.op = "Node" /\ obj # NoneValue) =>
        /\ state_call.is_root =>
               (state_call.outcome = "ok" <=> EveryLeafHoldsValue(obj))
        /\ ~ state_call.is_root => state_call.outcome = "ok"

\* a root refused for one undefined leaf below the top, next to a defined one
C13_Witness ==
    /\ state_call.op = "Node"
    /\ state_call.is_root
    /\ obj # NoneValue
    /\ ~ obj.is_leaf
    /\ IterationError(obj) = "none"
    /\ \E leaf \in ReachableLeaves(obj) : leaf._value = NoneValue
    /\ \E leaf \in ReachableLeaves(obj) : leaf._value # NoneValue
    /\ state_call.outcome = "Initial state must be defined for the root node"

\* ----------------------------------------------------------------- C15
\* C15: after construction and any writes through the value setter, is_leaf
\* is true if and only if the value slot is not a non-empty list made of
\* State objects only.
C15_LeafIffSlot ==
    obj # NoneValue => (obj.is_leaf <=> ~ StateList(obj._value))

\* ----------------------------------------------------------------- C14
NonDecreasing(times) ==
    \A k \in 1..(Len(times) - 1) : times[k] <= times[k + 1]

\* C14: over a non-decreasing sequence of clock times, the dynamics emits
\* true exactly at the ticks whose time has reached time_final and false at
\* every tick before the first of them; without a time_final it emits false
\* at every tick.
C14_TrueFromHorizonOn ==
    NonDecreasing(clock_log) =>
        /\ \A k \in 1..Len(emitted) :
               emitted[k] <=> (time_final # NoneValue /\ clock_log[k] >= time_final.v)
        /\ \A k, l \in 1..Len(emitted) : (k < l /\ emitted[k]) => emitted[l]
        /\ time_final = NoneValue => \A k \in 1..Len(emitted) : ~ emitted[k]

\* two ticks before the horizon, one at it and one after it
C14_Witness ==
    /\ time_final # NoneValue
    /\ Len(clock_log) = 4
    /\ clock_log[1] < clock_log[2]
    /\ clock_log[2] < time_final.v
    /\ clock_log[3] = time_final.v
    /\ clock_log[4] > time_final.v
    /\ emitted = <<FALSE, FALSE, TRUE, TRUE>>

\* ----------------------------------------------------------------- C16
\* the references an Inputs object stores, as object identities
StoredReferences(inputs) ==
    [k \in 1..Len(inputs.states) |-> inputs.states[k].id]

\* C16: once an Inputs object has been resolved, no later operation changes
\* the references it stores -- neither the resolution of another node's
\* inputs nor the construction of another Graph.  A Node object is known by
\* the identity of its state.
C16_ResolvedOnce ==
    [][\A i \in 1..Len(nodes) : \A j \in 1..Len(nodes') :
          (nodes[i].state.id = nodes'[j].state.id /\ nodes[i].inputs._resolved)
              => StoredReferences(nodes'[j].inputs) = StoredReferences(nodes[i].inputs)]_vars

\* ----------------------------------------------------------------- C17
\* both procedures have succeeded on the node list: the Graph is built and
\* the queue-based sort has placed every key
BothSucceed ==
    /\ pc = "built"
    /\ KahnSucceeds(nodes)

\* in order, every key that is no root comes after the keys whose state
\* satisfies its inputs
ProvidersFirst(order) ==
    \A k \in 1..Len(order) :
        LET node_info == MapEntry(nodes, order[k])
        IN  \/ node_info.is_root
            \/ \A j \in 1..Len(node_info.inputs) :
                   \E l \in 1..(k - 1) :
                       StateIn(node_info.inputs[j], <<MapEntry(nodes, order[l]).state>>)

C18_DeclarationOrderWithinRound ==
    \A k, l \in 1..Len(ordered_node_names) :
        (k < l /\ appended_in_round[k] = appended_in_round[l]) =>
            FirstNodeNamed(nodes, ordered_node_names[k])
                < FirstNodeNamed(nodes, ordered_node_names[l])

\* a built Graph of three nodes, two appended in one round although the
\* later of the two was declared first of all, the third a round later
C18_Witness ==
    /\ pc = "built"
    /\ Len(ordered_nodes) = 3
    /\ appended_in_round = <<0, 0, 1>>
    /\ ordered_nodes[3] = 1

\* ----------------------------------------------------------------- C19
\* the number of name components of a declared path
Components(path) == Len(PathParts(path))

\* some node declares a path of two or more components
DeclaresLongPath ==
    \E i \in 1..Len(nodes) : \E j \in 1..Len(nodes[i].inputs.paths_to_states) :
        Components(nodes[i].inputs.paths_to_states[j]) >= 2

\* C19: against the catalog of leaves that Graph construction builds, a
\* declared path is matched only when it is a single component equal to the
\* name of a leaf of the catalog; when a node declares a path of two or more
\* components, Graph construction fails with the resolution error.
C19_SingleComponentOnly ==
    pc # "building" =>
        LET catalog == Catalog(nodes, 1)
        IN  /\ \A i \in 1..Len(nodes) :
                   nodes[i].inputs._resolved =>
                       /\ Len(nodes[i].inputs.states)
                              = Len(nodes[i].inputs.paths_to_states)
                       /\ \A j \in 1..Len(nodes[i].inputs.states) :
                              /\ PathParts(nodes[i].inputs.paths_to_states[j])
                                     = <<nodes[i].inputs.states[j].name>>
                              /\ \E k \in 1..Len(catalog) :
                                     catalog[k].id = nodes[i].inputs.states[j].id
            /\ DeclaresLongPath =>
                   (pc = "failed" /\ error = "Could not resolve all input paths")

\* a Graph refused although the catalog holds the leaf "b" of a hierarchical
\* "c" that the path "c/b" names, every other declared path being the name
\* of a leaf of the catalog
C19_Witness ==
    /\ pc = "failed"
    /\ error = "Could not resolve all input paths"
    /\ DeclaresLongPath
    /\ \E i \in 1..Len(nodes) :
           /\ nodes[i].state.name = NameC
           /\ ~ nodes[i].state.is_leaf
           /\ nodes[i].state._value.items[1].name = NameB
    /\ \A i \in 1..Len(nodes) : \A j \in 1..Len(nodes[i].inputs.paths_to_states) :
           Components(nodes[i].inputs.paths_to_states[j]) = 1 =>
               \E leaf \in Range(Catalog(nodes, 1)) :
                   leaf.name = nodes[i].inputs.paths_to_states[j]

\* ----------------------------------------------------------------- C20
\* the positions of ordered_nodes whose node has no stepper
WithoutStepper ==
    {k \in 1..Len(ordered_nodes) : nodes[ordered_nodes[k]].transistor = NoneValue}

\* C20: when step() raises for a node without a stepper, exactly the nodes
\* that precede that node in ordered_nodes have been stepped, once each, and
\* stay stepped; the node itself, the nodes after it and the nodes outside
\* the order are as they were.
C20_PrefixSteppedNotRolledBack ==
    [][ (ticks' = ticks + 1 /\ step_error' = "Node does not have a transistor") =>
          /\ WithoutStepper # {}
          /\ LET first == CHOOSE k \in WithoutStepper :
                              \A l \in WithoutStepper : k <= l
             IN  /\ stepped' = SubSeq(ordered_nodes, 1, first - 1)
                 /\ \A k \in 1..(first - 1) :
                        nodes'[ordered_nodes[k]].transistor.n_steps =
                            nodes[ordered_nodes[k]].transistor.n_steps + 1
                 /\ \A i \in NodeIds :
                        (\A k \in 1..(first - 1) : ordered_nodes[k] # i) =>
                            nodes'[i] = nodes[i] ]_vars

\* a first step() that raised at the second of three nodes: the first node
\* has been stepped, the third has a stepper and has not
C20_Witness ==
    /\ pc = "built"
    /\ ticks = 1
    /\ step_error = "Node does not have a transistor"
    /\ Len(ordered_nodes) = 3
    /\ stepped = <<ordered_nodes[1]>>
    /\ nodes[ordered_nodes[1]].transistor.n_steps = 1
    /\ nodes[ordered_nodes[2]].transistor = NoneValue
    /\ nodes[ordered_nodes[3]].transistor # NoneValue
    /\ nodes[ordered_nodes[3]].transistor.n_steps = 0
====
